---- MODULE Spec2Model ----
(***************************************************************************)
(* Model of the adaptive processing queue of src/lib/processingQueue.ts:   *)
(* the instance queue (enqueue / processQueue / pause / pauseAll / resume  *)
(* / clear / configure) together with the three memory-event handlers it   *)
(* registers on the memory monitor, the static mode of the same class      *)
(* (static pauseAll / addTask), and the memory monitor of                  *)
(* src/lib/memoryMonitor.ts (configure / start / stop / checkMemory).      *)
(*                                                                         *)
(* One action is one synchronous run of JavaScript: a public method call,  *)
(* a timer callback, a memory-event callback, or the continuation of a     *)
(* processQueue() invocation after its `await task.fn(...)`.               *)
(***************************************************************************)
EXTENDS Integers, Sequences, FiniteSets, TLC

\* ---------------------------------------------------------------- bounds
NumTasks == 2
MaxPriority == 1
MaxRetries == 1
HostCpus == 4
MaxConcurrency == 2
MaxClears == 1
MaxThrottled == 5
MaxTimers == 3
NumSubmissions == 4
MaxDeferrals == 6
MaxIntervals == 2

Tasks == 1..NumTasks
Submissions == 1..NumSubmissions

\* ------------------------------------------------------ program constants
\* config.defaultRetries
defaultRetries == 3
\* MemoryMonitor.thresholds defaults
defaultWarning == 70
defaultCritical == 85
defaultInterval == 60000
\* static fields of ProcessingQueue
maxConcurrency == 3
minConcurrency == 1
\* addTask: Math.min(1000 * Math.pow(2, retryCount), 30000)
baseDelay == 1000
maxDelay == 30000

VARIABLES
  queue,        \* this.queue: pending tasks, head first
  processing,   \* this.processing: ids counted against the concurrency limit
  paused,       \* this.paused
  concurrency,  \* this.config.concurrency
  priorityQueue,\* this.config.priorityQueue
  cpuCount,     \* os.cpus().length of the host
  attempts,     \* operations started and not yet settled, with their timer
  listeners,    \* ids whose onComplete/onError listeners are attached
  enqueued,     \* ids for which enqueue() has been called
  settlements,  \* per id: the values passed to resolve()/reject(), in order
  invoked,      \* per id: number of times task.fn was called
  fails,        \* per id: number of times task.fn rejected
  initRetries,  \* per id: options.retries of the task as created by enqueue
  mustPrecede,  \* <<a, b, n>>: a was enqueued with higher priority while
                \*   b was pending and had been started n times
  clears,       \* number of clear() calls
  clearReturn,  \* value returned by the last clear()
  fifoUsed,     \* an enqueue has run with config.priorityQueue disabled
  discarded,    \* ids removed from the queue by clear()
  flightAtClear,\* this.processing at the last clear()
  \* observations of single calls, kept only by the specifications that say so
  delivered,    \* the memory event just delivered to the queue, with the
                \*   concurrency and pending count its handler found
  justPausedAll,\* the last call was pauseAll()
  dropped,      \* ids that were in this.processing at some pauseAll()
  \* the memory monitor (src/lib/memoryMonitor.ts)
  isMonitoring, \* this.isMonitoring
  interval,     \* this.interval: id of the timer it refers to, 0 = null
  timers,       \* ids of the setInterval timers that are active
  timersMade,   \* number of setInterval calls so far
  thresholds,   \* this.thresholds
  lastCall,     \* the last monitor call: what it sampled, emitted, returned
  retryFirst,   \* <<a, c, n>>: c was enqueued with a priority not above a's
                \*   while the retry of a was pending, a started n times
  \* the static mode of ProcessingQueue (pauseAll / addTask)
  isPaused,          \* ProcessingQueue.isPaused
  currentConcurrency,\* ProcessingQueue.currentConcurrency
  resumeTimeout,     \* the timer of ProcessingQueue.resumeTimeout is pending
  increaseIntervals, \* number of active increaseInterval timers
  currentTasks,      \* ProcessingQueue.currentTasks
  retryCount,        \* ProcessingQueue.retryCount
  submitted,         \* per task function: "idle", "running", "waiting" for
                     \*   its re-submission timer, "done" or "failed"
  deferrals,         \* per task function: number of times it was deferred
  calls,             \* per task function: number of times it was called
  deferred           \* the deferral just made: task function and delay

queueVars == <<queue, processing, paused, concurrency, priorityQueue, cpuCount,
               attempts, listeners, enqueued, settlements, invoked, fails,
               initRetries, mustPrecede, clears, clearReturn, discarded,
               flightAtClear, fifoUsed>>
probeVars == <<delivered, justPausedAll, dropped, retryFirst>>
monitorVars == <<isMonitoring, interval, timers, timersMade, thresholds, lastCall>>
staticVars == <<isPaused, currentConcurrency, resumeTimeout, increaseIntervals,
                currentTasks, retryCount, submitted, deferrals, calls, deferred>>
vars == <<queueVars, probeVars, monitorVars, staticVars>>

\* ------------------------------------------------------------ JS helpers
Min(a, b) == IF a <= b THEN a ELSE b

Max(a, b) == IF a >= b THEN a ELSE b

\* Math.floor(os.cpus().length / 2)
HalfCpus(n) == n \div 2

\* Math.max(1, Math.floor(os.cpus().length / 2))
DefaultConcurrency(n) == Max(1, HalfCpus(n))

\* An optional option is a set with at most one element ({} = undefined).
Opt(S) == {{}} \cup {{x} : x \in S}
Get(o) == CHOOSE x \in o : TRUE

\* options.priority || 0
PriorityOf(opts) == IF opts.priority = {} \/ opts.priority = {0} THEN 0 ELSE Get(opts.priority)

\* options.retries !== undefined ? options.retries : this.config.defaultRetries
RetriesOf(opts) == IF opts.retries # {} THEN Get(opts.retries) ELSE defaultRetries

\* the Task object built by enqueue
NewTask(id, opts) == [id |-> id, priority |-> PriorityOf(opts), retries |-> RetriesOf(opts)]

\* faulty variant: the comparison of findIndex reversed
FindIndexReversed(q, task) ==
  LET hits == {i \in 1..Len(q) : q[i].priority > task.priority}
  IN IF hits = {} THEN 0 ELSE CHOOSE i \in hits : \A j \in hits : i <= j

\* this.queue.findIndex(t => t.options.priority < task.options.priority), 1-based; 0 = not found
FindIndex(q, task) ==
  LET hits == {i \in 1..Len(q) : q[i].priority < task.priority}
  IN IF hits = {} THEN 0 ELSE CHOOSE i \in hits : \A j \in hits : i <= j

\* this.queue.splice(index, 0, task)
Splice(q, i, task) == SubSeq(q, 1, i - 1) \o <<task>> \o SubSeq(q, i, Len(q))

\* the insertion of enqueue: by priority when enabled, else push
Insert(q, task, byPriority) ==
  IF byPriority
  THEN LET index == FindIndex(q, task)
       IN IF index = 0 THEN Append(q, task) ELSE Splice(q, index, task)
  ELSE Append(q, task)

QueueIds(q) == {q[i].id : i \in 1..Len(q)}

\* ------------------------------------------------------ processQueue core
\* The part of the state processQueue works on, passed through its steps.
Core == [queue |-> queue, processing |-> processing,
         attempts |-> attempts, invoked |-> invoked]

\* faulty variant: the concurrency test off by one
CanAdmitOffByOne(s, conc) == Len(s.queue) > 0 /\ Cardinality(s.processing) <= conc

\* faulty variant: the loop runs while anything is pending
CanAdmitAnything(s, conc) == Len(s.queue) > 0

\* the while condition of processQueue
CanAdmit(s, conc) == Len(s.queue) > 0 /\ Cardinality(s.processing) < conc

\* shift the head, mark it processing, arm its timer, call task.fn
StartTask(s) ==
  LET task == Head(s.queue)
  IN [queue |-> Tail(s.queue),
      processing |-> s.processing \cup {task.id},
      attempts |-> s.attempts \cup {[task |-> task, timer |-> "armed"]},
      invoked |-> [s.invoked EXCEPT ![task.id] = @ + 1]]

\* the while loop, run until it suspends at `await` or its condition fails
RunLoop(s, conc) == IF CanAdmit(s, conc) THEN StartTask(s) ELSE s

\* a call of processQueue(), up to its first suspension
ProcessQueue(s, pausedNow, conc) == IF pausedNow THEN s ELSE RunLoop(s, conc)

\* faulty variant: the resumed invocation returns without draining
AfterAwaitNoDrain(s, id, pausedNow, conc) == [s EXCEPT !.processing = @ \ {id}]

\* the invocation resumed after `await`: finally, processQueue(), loop again
AfterAwait(s, id, pausedNow, conc) ==
  RunLoop(ProcessQueue([s EXCEPT !.processing = @ \ {id}], pausedNow, conc), conc)

\* this.queue.unshift(task)
Unshift(q, task) == <<task>> \o q

\* faulty variant: a retry costs two
RetryTaskChargesTwice(task) == [task EXCEPT !.retries = @ - 2]

\* faulty variant: the retry keeps its budget
RetryTaskKeepsBudget(task) == task

\* { ...task, options: { ...task.options, retries: task.options.retries - 1 } }
RetryTask(task) == [task EXCEPT !.retries = @ - 1]

\* faulty variant: removeAllListeners() without the event names
RemoveTaskListenersOfAll(ls, id) == {}

\* faulty variant: the listeners stay attached
RemoveTaskListenersNot(ls, id) == ls

\* removeTaskListeners
RemoveTaskListeners(ls, id) == ls \ {id}

\* faulty variant: only tasks still in this.processing are settled
EmitIfTracked(id, value) ==
  IF id \in listeners /\ id \in processing
  THEN /\ listeners' = listeners \ {id}
       /\ settlements' = [settlements EXCEPT ![id] = Append(@, value)]
  ELSE UNCHANGED <<listeners, settlements>>

\* this.emit(`task:${id}:complete` / `task:${id}:error`, value): the listener
\* attached by enqueue, if still attached, detaches both and settles
Emit(id, value) ==
  IF id \in listeners
  THEN /\ listeners' = RemoveTaskListeners(listeners, id)
       /\ settlements' = [settlements EXCEPT ![id] = Append(@, value)]
  ELSE UNCHANGED <<listeners, settlements>>

SetCore(s) ==
  /\ queue' = s.queue
  /\ processing' = s.processing
  /\ attempts' = s.attempts
  /\ invoked' = s.invoked

config == <<concurrency, priorityQueue, cpuCount>>
clearHist == <<clears, clearReturn, discarded, flightAtClear>>
hist == <<initRetries, mustPrecede, fifoUsed>>

\* ---------------------------------------------------------------- actions
\* the options callers pass to enqueue: priority given or omitted, retries given
EnqueueOptions == [priority : Opt(0..MaxPriority), retries : {{r} : r \in 0..MaxRetries}]

Enqueue(id, opts) ==
  /\ id \notin enqueued
  /\ LET task == NewTask(id, opts)
         lower == {i \in 1..Len(queue) : queue[i].priority < task.priority}
     IN /\ SetCore(ProcessQueue([Core EXCEPT !.queue = Insert(queue, task, priorityQueue)],
                                paused, concurrency))
        /\ initRetries' = [initRetries EXCEPT ![id] = task.retries]
        /\ mustPrecede' = IF priorityQueue
                          THEN mustPrecede \cup {<<id, queue[i].id, invoked[queue[i].id]>> : i \in lower}
                          ELSE mustPrecede
  /\ enqueued' = enqueued \cup {id}
  /\ listeners' = listeners \cup {id}
  /\ fifoUsed' = (fifoUsed \/ ~priorityQueue)
  /\ UNCHANGED <<paused, config, settlements, fails, clearHist>>

\* task.fn resolves: the awaiting invocation continues in the try block
OpResolve(a) ==
  /\ a \in attempts
  /\ Emit(a.task.id, [kind |-> "result", attempt |-> invoked[a.task.id]])
  /\ SetCore(AfterAwait([Core EXCEPT !.attempts = @ \ {a}], a.task.id, paused, concurrency))
  /\ UNCHANGED <<paused, config, enqueued, fails, hist, clearHist>>

\* task.fn rejects: the awaiting invocation continues in the catch block
OpFail(a) ==
  /\ a \in attempts
  /\ fails' = [fails EXCEPT ![a.task.id] = @ + 1]
  /\ IF a.task.retries > 0
     THEN /\ SetCore(AfterAwait([Core EXCEPT
                        !.attempts = @ \ {a},
                        !.queue = Unshift(@, RetryTask(a.task))],
                      a.task.id, paused, concurrency))
          /\ UNCHANGED <<listeners, settlements>>
     ELSE /\ Emit(a.task.id, [kind |-> "error", attempt |-> invoked[a.task.id]])
          /\ SetCore(AfterAwait([Core EXCEPT !.attempts = @ \ {a}], a.task.id, paused, concurrency))
  /\ UNCHANGED <<paused, config, enqueued, hist, clearHist>>

\* the setTimeout callback of an attempt whose timer was not cleared
TimerFire(a) ==
  /\ a \in attempts
  /\ a.timer = "armed"
  /\ Emit(a.task.id, [kind |-> "timeout", attempt |-> invoked[a.task.id]])
  /\ SetCore(ProcessQueue([Core EXCEPT
                !.attempts = (@ \ {a}) \cup {[a EXCEPT !.timer = "fired"]},
                !.processing = @ \ {a.task.id}],
              paused, concurrency))
  /\ UNCHANGED <<paused, config, enqueued, fails, hist, clearHist>>

Pause ==
  /\ paused' = TRUE
  /\ UNCHANGED <<queue, processing, attempts, invoked, config, listeners, enqueued,
                 settlements, fails, hist, clearHist>>

PauseAll ==
  /\ paused' = TRUE
  /\ processing' = {}
  /\ UNCHANGED <<queue, attempts, invoked, config, listeners, enqueued,
                 settlements, fails, hist, clearHist>>

Resume ==
  /\ paused' = FALSE
  /\ SetCore(ProcessQueue(Core, FALSE, concurrency))
  /\ UNCHANGED <<config, listeners, enqueued, settlements, fails, hist, clearHist>>

\* faulty variant: clear() leaves the head of the queue
ClearedQueueKeepsHead(q) == IF q = << >> THEN q ELSE <<Head(q)>>

\* this.queue = []
ClearedQueue(q) == << >>

Clear ==
  /\ clears < MaxClears
  /\ clears' = clears + 1
  /\ clearReturn' = Len(queue)
  /\ queue' = ClearedQueue(queue)
  /\ discarded' = discarded \cup QueueIds(queue)
  /\ flightAtClear' = processing
  /\ UNCHANGED <<processing, attempts, invoked, paused, config, listeners, enqueued,
                 settlements, fails, hist>>

ConfigureOptions == [concurrency : Opt(0..MaxConcurrency), priorityQueue : Opt(BOOLEAN)]

\* this.config = { ...this.config, ...options }
Configure(opts) ==
  /\ concurrency' = IF opts.concurrency # {} THEN Get(opts.concurrency) ELSE concurrency
  /\ priorityQueue' = IF opts.priorityQueue # {} THEN Get(opts.priorityQueue) ELSE priorityQueue
  /\ UNCHANGED <<queue, processing, attempts, invoked, paused, cpuCount, listeners,
                 enqueued, settlements, fails, hist, clearHist>>

\* the value each memory handler leaves in config.concurrency
\* faulty variant: halves whether or not tasks are pending
OnWarningAlways(conc, pending) ==
  IF conc > 1 THEN Max(1, conc \div 2) ELSE conc

OnWarning(conc, pending) ==
  IF pending > 0 /\ conc > 1 THEN Max(1, conc \div 2) ELSE conc

OnCritical(conc) == IF conc > 1 THEN 1 ELSE conc

OnNormal(conc, cpus) ==
  IF conc < HalfCpus(cpus) THEN DefaultConcurrency(cpus) ELSE conc

\* faulty variant: the critical handler also drops the in-flight set
MemoryEventDropsInFlight(level) ==
  /\ concurrency' = CASE level = "warning" -> OnWarning(concurrency, Len(queue))
                      [] level = "critical" -> OnCritical(concurrency)
                      [] level = "normal" -> OnNormal(concurrency, cpuCount)
  /\ processing' = IF level = "critical" THEN {} ELSE processing
  /\ UNCHANGED <<queue, attempts, invoked, paused, priorityQueue, cpuCount,
                 listeners, enqueued, settlements, fails, hist, clearHist>>

MemoryEvent(level) ==
  /\ concurrency' = CASE level = "warning" -> OnWarning(concurrency, Len(queue))
                      [] level = "critical" -> OnCritical(concurrency)
                      [] level = "normal" -> OnNormal(concurrency, cpuCount)
  /\ UNCHANGED <<queue, processing, attempts, invoked, paused, priorityQueue, cpuCount,
                 listeners, enqueued, settlements, fails, hist, clearHist>>

\* ------------------------------------------------------------------ spec
NoDelivery == [level |-> "none", conc |-> 0, pending |-> 0]
NoCall == [op |-> "none", read |-> "none", percent |-> 0, events |-> << >>, returned |-> "none"]

\* new ProcessingQueue() on a host with the given number of CPUs
InitQueue(cpus) ==
  /\ queue = << >>
  /\ processing = {}
  /\ paused = FALSE
  /\ cpuCount = cpus
  /\ concurrency = DefaultConcurrency(cpuCount)
  /\ priorityQueue = TRUE
  /\ attempts = {}
  /\ listeners = {}
  /\ enqueued = {}
  /\ settlements = [t \in Tasks |-> << >>]
  /\ invoked = [t \in Tasks |-> 0]
  /\ fails = [t \in Tasks |-> 0]
  /\ initRetries = [t \in Tasks |-> 0]
  /\ mustPrecede = {}
  /\ clears = 0
  /\ clearReturn = 0
  /\ discarded = {}
  /\ flightAtClear = {}
  /\ fifoUsed = FALSE

InitProbes ==
  /\ delivered = NoDelivery
  /\ justPausedAll = FALSE
  /\ dropped = {}
  /\ retryFirst = {}

\* no deferral made
NoDeferral == [task |-> 0, delay |-> 0]

\* the static fields as the class initialises them
InitStatic ==
  /\ isPaused = FALSE
  /\ currentConcurrency = maxConcurrency
  /\ resumeTimeout = FALSE
  /\ increaseIntervals = 0
  /\ currentTasks = 0
  /\ retryCount = 0
  /\ submitted = [t \in Submissions |-> "idle"]
  /\ deferrals = [t \in Submissions |-> 0]
  /\ calls = [t \in Submissions |-> 0]
  /\ deferred = NoDeferral

\* new MemoryMonitor()
InitMonitor ==
  /\ isMonitoring = FALSE
  /\ interval = 0
  /\ timers = {}
  /\ timersMade = 0
  /\ thresholds = [warning |-> defaultWarning, critical |-> defaultCritical,
                   interval |-> defaultInterval]
  /\ lastCall = NoCall

Init == InitQueue(HostCpus) /\ InitProbes /\ InitMonitor /\ InitStatic

\* the queue on its own: nothing is observed, the monitor is not running
Alone == UNCHANGED <<probeVars, monitorVars, staticVars>>

Next ==
  \/ (\E id \in Tasks, opts \in EnqueueOptions : Enqueue(id, opts)) /\ Alone
  \/ (\E a \in attempts : OpResolve(a)) /\ Alone
  \/ (\E a \in attempts : OpFail(a)) /\ Alone
  \/ (\E a \in attempts : TimerFire(a)) /\ Alone
  \/ Pause /\ Alone
  \/ PauseAll /\ Alone
  \/ Resume /\ Alone
  \/ Clear /\ Alone
  \/ (\E opts \in ConfigureOptions : Configure(opts)) /\ Alone
  \/ (\E level \in {"warning", "critical", "normal"} : MemoryEvent(level)) /\ Alone

Spec == Init /\ [][Next]_vars

\* ------------------------------------------- the queue, pauseAll observed
NotPauseAll == justPausedAll' = FALSE /\ UNCHANGED <<dropped, delivered, retryFirst, monitorVars, staticVars>>

PauseAllObserved ==
  /\ PauseAll
  /\ justPausedAll' = TRUE
  /\ dropped' = dropped \cup processing
  /\ UNCHANGED <<delivered, retryFirst, monitorVars, staticVars>>

NextPauseAll ==
  \/ (\E id \in Tasks, opts \in EnqueueOptions : Enqueue(id, opts)) /\ NotPauseAll
  \/ (\E a \in attempts : OpResolve(a)) /\ NotPauseAll
  \/ (\E a \in attempts : OpFail(a)) /\ NotPauseAll
  \/ (\E a \in attempts : TimerFire(a)) /\ NotPauseAll
  \/ Pause /\ NotPauseAll
  \/ PauseAllObserved
  \/ Resume /\ NotPauseAll
  \/ (\E opts \in ConfigureOptions : Configure(opts)) /\ NotPauseAll

SpecPauseAll == Init /\ [][NextPauseAll]_vars

\* ---------------------------------------------------------- observations
\* the future of id was rejected by the timeout callback
TimedOut(t) == settlements[t] # << >> /\ settlements[t][1].kind = "timeout"
Running(t) == \E a \in attempts : a.task.id = t
Sorted(q) == \A i, j \in 1..Len(q) : i < j => q[i].priority >= q[j].priority

\* ------------------------------------------------------------------ C1
\* C1: the future of every enqueued task is settled at most once (resolve
\* and reject are called at most once in total, so never both), and a task
\* enqueued with retries = 0 whose operation has failed has been rejected
\* exactly once, whether by the failure or by an earlier timeout.
C1_SettledAtMostOnce ==
  \A t \in Tasks :
    /\ Len(settlements[t]) <= 1
    /\ (initRetries[t] = 0 /\ fails[t] >= 1) =>
         /\ Len(settlements[t]) = 1
         /\ settlements[t][1].kind \in {"error", "timeout"}

\* a retries = 0 task timed out and its abandoned operation failed afterwards
C1_Witness ==
  \E t \in Tasks : initRetries[t] = 0 /\ fails[t] = 1 /\ TimedOut(t) /\ ~Running(t)

\* ------------------------------------------------------------------ C2
\* C2: while the queue stays paused, no step starts an operation or adds a
\* task to the in-flight set.
C2_NoStartWhilePaused ==
  [][(paused /\ paused') => (invoked' = invoked /\ processing' \subseteq processing)]_vars

\* ------------------------------------------------------------------ C3
\* C3 as stated: the in-flight set never exceeds the current concurrency
\* (read here for the positive values of concurrency only, so that the
\* refutation does not rest on configure accepting a value <= 0).
C3_InFlightWithinConcurrency ==
  concurrency >= 1 => Cardinality(processing) <= concurrency

\* C3 amended: the in-flight set grows only below the limit; every step that
\* adds a task to it leaves it at most as large as concurrency.
C3_AdmitsOnlyBelowLimit ==
  [][(processing' \ processing # {}) => Cardinality(processing') <= concurrency']_vars

\* two tasks were admitted one after the other and both are in flight
C3_Witness == Cardinality(processing) = 2 /\ concurrency = 2

\* ------------------------------------------------------------------ C4
\* C4: concurrency is positive in every reachable state.
C4_ConcurrencyPositive == concurrency > 0

\* ------------------------------------------------------------------ C5
\* C5: once the timeout callback has rejected a task, the task is never put
\* back into the pending list and its operation is never called again.
C5_TimedOutIsTerminal ==
  [][\A t \in Tasks : TimedOut(t) =>
        (t \notin QueueIds(queue') /\ invoked'[t] = invoked[t])]_vars

\* ------------------------------------------------------------------ C6
\* C6: if a was enqueued in priority mode while b was pending with a
\* strictly lower priority, then b's operation is not started again before
\* a's operation has been started.
C6_HigherPriorityStartsFirst ==
  \A m \in mustPrecede : invoked[m[2]] > m[3] => invoked[m[1]] > 0

\* with concurrency 1 the later, higher-priority task ran and then the
\* earlier, lower-priority one
C6_Witness ==
  /\ concurrency = 1
  /\ \E m \in mustPrecede : invoked[m[2]] > m[3] /\ invoked[m[1]] > 0

\* ------------------------------------------------------------------ C7
\* C7: in priority mode (never left since construction) the pending list is
\* ordered by non-increasing priority.
C7_PendingSortedByPriority == (priorityQueue /\ ~fifoUsed) => Sorted(queue)

\* ------------------------------------------------------------------ C8
\* every finished attempt of t failed
AllFailed(t) == fails[t] = invoked[t] - (IF Running(t) THEN 1 ELSE 0)

\* C8: for a task enqueued with retries = r whose attempts all failed before
\* their timeout: the operation is called at most r + 1 times, the future is
\* unsettled as long as at most r attempts have failed, and after failure
\* r + 1 it is rejected with the error of that attempt and the task is gone.
C8_RetriesThenReject ==
  \A t \in enqueued :
    (~TimedOut(t) /\ AllFailed(t)) =>
      /\ invoked[t] <= initRetries[t] + 1
      /\ fails[t] <= initRetries[t] => settlements[t] = << >>
      /\ fails[t] > initRetries[t] =>
           /\ invoked[t] = initRetries[t] + 1
           /\ fails[t] = initRetries[t] + 1
           /\ settlements[t] = <<[kind |-> "error", attempt |-> initRetries[t] + 1]>>
           /\ t \notin QueueIds(queue)
           /\ ~Running(t)

\* a task with at least one retry failed on every attempt and was rejected
C8_Witness ==
  \E t \in enqueued :
    /\ initRetries[t] >= 1
    /\ ~TimedOut(t)
    /\ fails[t] = initRetries[t] + 1
    /\ invoked[t] = initRetries[t] + 1

\* ------------------------------------------------------------------ C9
\* the operation of attempt a settles in this step (resolves / rejects)
Settles(a) == a \in attempts /\ a \notin attempts' /\ [a EXCEPT !.timer = "fired"] \notin attempts'

\* C9: an operation that resolves before its timer resolves the future with
\* its result; once the timer has fired, the later settling of the abandoned
\* operation changes no future, does not put its task back into the pending
\* list and does not call its operation again.
C9_FirstSettlerDecides ==
  [][\A a \in attempts :
       /\ (Settles(a) /\ a.timer = "armed" /\ fails' = fails /\ a.task.id \in listeners) =>
            settlements'[a.task.id] = <<[kind |-> "result", attempt |-> invoked[a.task.id]]>>
       /\ (Settles(a) /\ a.timer = "fired") =>
            /\ settlements' = settlements
            /\ a.task.id \notin QueueIds(queue')
            /\ invoked'[a.task.id] = invoked[a.task.id]]_vars

\* ------------------------------------------------------------------ C10
\* C10: a clear() step returns the number of pending tasks, empties the
\* pending list and changes nothing else of the queue (in-flight set, paused,
\* concurrency, running operations, listeners and futures, so the tasks in
\* flight can still settle); a discarded task's operation is never called
\* afterwards.
C10_ClearFrame ==
  [][/\ (clears' # clears) =>
          /\ clearReturn' = Len(queue)
          /\ queue' = << >>
          /\ UNCHANGED <<processing, paused, concurrency, attempts, listeners,
                         settlements, invoked>>
     /\ \A t \in discarded : invoked'[t] = invoked[t] /\ t \notin processing']_vars

\* clear() discarded a pending task while another was in flight, and that
\* one was resolved afterwards
C10_Witness ==
  /\ clearReturn >= 1
  /\ queue = << >>
  /\ \E t \in flightAtClear :
       /\ t \notin processing
       /\ settlements[t] # << >>
       /\ settlements[t][1].kind = "result"
  /\ \E t \in discarded : settlements[t] = << >>

\* ------------------------------------------------------------------ C15
\* C15: right after resume(), and right after an enqueue on a queue that is
\* not paused, the pending list is empty or the in-flight set has reached
\* concurrency.
C15_DrainsToLimit ==
  [][((paused /\ ~paused') \/ (~paused /\ enqueued' # enqueued)) =>
       (queue' = << >> \/ Cardinality(processing') >= concurrency')]_vars

\* -------------------------------------- the queue, memory events observed
\* the host's CPU count is fixed when the module is loaded
InitThrottle ==
  /\ \E cpus \in 1..HostCpus : InitQueue(cpus)
  /\ InitProbes
  /\ InitMonitor
  /\ InitStatic

NotDelivery == delivered' = NoDelivery /\ UNCHANGED <<justPausedAll, dropped, retryFirst, monitorVars, staticVars>>

\* memoryMonitor.on(level, handler): the handler of the queue runs
Deliver(level) ==
  /\ MemoryEvent(level)
  /\ delivered' = [level |-> level, conc |-> concurrency, pending |-> Len(queue)]
  /\ UNCHANGED <<justPausedAll, dropped, retryFirst, monitorVars, staticVars>>

ThrottleOptions == [concurrency : Opt(0..MaxThrottled), priorityQueue : {{}}]

NextThrottle ==
  \/ (\E id \in Tasks, opts \in EnqueueOptions : Enqueue(id, opts)) /\ NotDelivery
  \/ (\E a \in attempts : OpResolve(a)) /\ NotDelivery
  \/ (\E a \in attempts : OpFail(a)) /\ NotDelivery
  \/ (\E a \in attempts : TimerFire(a)) /\ NotDelivery
  \/ Pause /\ NotDelivery
  \/ Resume /\ NotDelivery
  \/ (\E opts \in ThrottleOptions : Configure(opts)) /\ NotDelivery
  \/ \E level \in {"warning", "critical", "normal"} : Deliver(level)

SpecThrottle == InitThrottle /\ [][NextThrottle]_vars

\* ------------------------------------- the queue, retries observed
\* one task more than elsewhere: two retries and a later arrival
RetryTasks == 1..(NumTasks + 1)

InitRetry ==
  /\ queue = << >>
  /\ processing = {}
  /\ paused = FALSE
  /\ cpuCount = HostCpus
  /\ concurrency = DefaultConcurrency(cpuCount)
  /\ priorityQueue = TRUE
  /\ attempts = {}
  /\ listeners = {}
  /\ enqueued = {}
  /\ settlements = [t \in RetryTasks |-> << >>]
  /\ invoked = [t \in RetryTasks |-> 0]
  /\ fails = [t \in RetryTasks |-> 0]
  /\ initRetries = [t \in RetryTasks |-> 0]
  /\ mustPrecede = {}
  /\ clears = 0
  /\ clearReturn = 0
  /\ discarded = {}
  /\ flightAtClear = {}
  /\ fifoUsed = FALSE
  /\ InitProbes
  /\ InitMonitor
  /\ InitStatic

\* configure() of the concurrency, priority mode left on
RetryOptions == [concurrency : Opt(0..MaxConcurrency), priorityQueue : {{}}]

\* the pending retries a new task of the given priority must not overtake
RetriesAhead(q, priority) ==
  {i \in 1..Len(q) : q[i].retries < initRetries[q[i].id] /\ q[i].priority >= priority}

EnqueueObserved(id, opts) ==
  /\ Enqueue(id, opts)
  /\ retryFirst' = retryFirst \cup
       {<<queue[i].id, id, invoked[queue[i].id]>> : i \in RetriesAhead(queue, PriorityOf(opts))}
  /\ UNCHANGED <<delivered, justPausedAll, dropped, monitorVars, staticVars>>

NextRetry ==
  \/ \E id \in RetryTasks, opts \in EnqueueOptions : EnqueueObserved(id, opts)
  \/ (\E a \in attempts : OpResolve(a)) /\ Alone
  \/ (\E a \in attempts : OpFail(a)) /\ Alone
  \/ Pause /\ Alone
  \/ Resume /\ Alone
  \/ (\E opts \in RetryOptions : Configure(opts)) /\ Alone

SpecRetry == InitRetry /\ [][NextRetry]_vars

\* ------------------------------ the queue, concurrency never lowered
\* configure() that does not lower concurrency
RaiseOnly(opts) == Configure(opts) /\ concurrency' >= concurrency

\* no warning or critical event, no lowering configure
NextSteady ==
  \/ (\E id \in Tasks, opts \in EnqueueOptions : Enqueue(id, opts)) /\ Alone
  \/ (\E a \in attempts : OpResolve(a)) /\ Alone
  \/ (\E a \in attempts : OpFail(a)) /\ Alone
  \/ (\E a \in attempts : TimerFire(a)) /\ Alone
  \/ Pause /\ Alone
  \/ PauseAll /\ Alone
  \/ Resume /\ Alone
  \/ (\E opts \in ConfigureOptions : RaiseOnly(opts)) /\ Alone
  \/ MemoryEvent("normal") /\ Alone

SpecSteady == InitThrottle /\ [][NextSteady]_vars

\* ------------------------------- the queue left to drain, with fairness
\* configure() with a concurrency of at least 1
LiveOptions == [concurrency : Opt(1..MaxConcurrency), priorityQueue : Opt(BOOLEAN)]

\* never paused, never cleared
NextLive ==
  \/ (\E id \in Tasks, opts \in EnqueueOptions : Enqueue(id, opts)) /\ Alone
  \/ (\E a \in attempts : OpResolve(a)) /\ Alone
  \/ (\E a \in attempts : OpFail(a)) /\ Alone
  \/ (\E a \in attempts : TimerFire(a)) /\ Alone
  \/ (\E opts \in LiveOptions : Configure(opts)) /\ Alone
  \/ (\E level \in {"warning", "critical", "normal"} : MemoryEvent(level)) /\ Alone

\* the running operation of task t resolves or rejects, or its timeout fires
Finish(t) ==
  \E a \in attempts :
    /\ a.task.id = t
    /\ a.timer = "armed"
    /\ (OpResolve(a) \/ OpFail(a) \/ TimerFire(a))
    /\ Alone

\* setTimeout callbacks run, and the operations callers pass in are assumed
\* to end unless their timeout fires first
SpecLive == Init /\ [][NextLive]_vars /\ \A t \in Tasks : WF_vars(Finish(t))

\* ------------------------------------------------------ the memory monitor
\* faulty variant: the thresholds compared with >=
ClassifyInclusive(p, th) ==
  IF p >= th.critical THEN "critical"
  ELSE IF p >= th.warning THEN "warning"
  ELSE "normal"

\* the if / else if / else of checkMemory on heapUsedPercent
Classify(p, th) ==
  IF p > th.critical THEN "critical"
  ELSE IF p > th.warning THEN "warning"
  ELSE "normal"

\* faulty variant: a failed read falls through to the else branch
SampleOutcomeFallsThrough(readOk, p, th) ==
  IF readOk
  THEN [events |-> <<Classify(p, th)>>, returned |-> "stats"]
  ELSE [events |-> <<"normal">>, returned |-> "stats"]

\* what checkMemory emits and returns: the try block, or the catch block
\* when process.memoryUsage() throws
SampleOutcome(readOk, p, th) ==
  IF readOk
  THEN [events |-> <<Classify(p, th)>>, returned |-> "stats"]
  ELSE [events |-> << >>, returned |-> "null"]

\* heap-used percentages at and next to the stored thresholds
Percents(th) ==
  {p \in {th.warning - 1, th.warning, th.warning + 1,
          th.critical - 1, th.critical, th.critical + 1} : p >= 0 /\ p <= 100}

\* checkMemory(), called by op; the emitted event runs the queue's handler
CheckMemory(op, readOk, p) ==
  LET out == SampleOutcome(readOk, p, thresholds)
  IN /\ lastCall' = [op |-> op,
                     read |-> IF readOk THEN "ok" ELSE "failed",
                     percent |-> IF readOk THEN p ELSE 0,
                     events |-> out.events,
                     returned |-> out.returned]
     /\ IF out.events # << >>
        THEN MemoryEvent(out.events[1])
        ELSE UNCHANGED queueVars

NoSample(op) ==
  /\ lastCall' = [op |-> op, read |-> "none", percent |-> 0, events |-> << >>,
                  returned |-> "this"]
  /\ UNCHANGED queueVars

\* faulty variant: start() without its guard
StartReturnsEarlyNever(running) == FALSE

\* if (this.isMonitoring) return this
StartReturnsEarly(running) == running

MonitorStart ==
  IF StartReturnsEarly(isMonitoring)
  THEN /\ NoSample("start")
       /\ UNCHANGED <<isMonitoring, interval, timers, timersMade, thresholds>>
  ELSE /\ timersMade < MaxTimers
       /\ isMonitoring' = TRUE
       /\ \E readOk \in BOOLEAN, p \in Percents(thresholds) : CheckMemory("start", readOk, p)
       /\ timersMade' = timersMade + 1
       /\ interval' = timersMade'
       /\ timers' = timers \cup {timersMade'}
       /\ UNCHANGED thresholds

MonitorStop ==
  /\ IF interval # 0
     THEN timers' = timers \ {interval} /\ interval' = 0
     ELSE UNCHANGED <<timers, interval>>
  /\ isMonitoring' = FALSE
  /\ NoSample("stop")
  /\ UNCHANGED <<timersMade, thresholds>>

\* the setInterval callback of an active timer
Tick(id) ==
  /\ id \in timers
  /\ \E readOk \in BOOLEAN, p \in Percents(thresholds) : CheckMemory("tick", readOk, p)
  /\ UNCHANGED <<isMonitoring, interval, timers, timersMade, thresholds>>

\* checkMemory() called directly
DirectCheck ==
  /\ \E readOk \in BOOLEAN, p \in Percents(thresholds) : CheckMemory("checkMemory", readOk, p)
  /\ UNCHANGED <<isMonitoring, interval, timers, timersMade, thresholds>>

\* the options callers pass to the monitor's configure: each one given or
\* omitted; negative values and a warning above the critical default included
MonitorOptions ==
  [warning : Opt({0 - 1, defaultCritical - 25, defaultCritical + 5}),
   critical : Opt({defaultCritical - 5}),
   interval : Opt({0 - 1, defaultInterval \div 60})]

\* this.thresholds = { ...this.thresholds, ...options }
MonitorConfigure(opts) ==
  /\ thresholds' = [warning |-> IF opts.warning # {} THEN Get(opts.warning) ELSE thresholds.warning,
                    critical |-> IF opts.critical # {} THEN Get(opts.critical) ELSE thresholds.critical,
                    interval |-> IF opts.interval # {} THEN Get(opts.interval) ELSE thresholds.interval]
  /\ NoSample("configure")
  /\ UNCHANGED <<isMonitoring, interval, timers, timersMade>>

NextMonitor ==
  \/ MonitorStart /\ UNCHANGED <<probeVars, staticVars>>
  \/ MonitorStop /\ UNCHANGED <<probeVars, staticVars>>
  \/ (\E id \in timers : Tick(id)) /\ UNCHANGED <<probeVars, staticVars>>
  \/ DirectCheck /\ UNCHANGED <<probeVars, staticVars>>
  \/ (\E opts \in MonitorOptions : MonitorConfigure(opts)) /\ UNCHANGED <<probeVars, staticVars>>

SpecMonitor == Init /\ [][NextMonitor]_vars

\* ---------------------------------------------------- the static mode
\* faulty variant: the delay without its cap
BackoffUncapped(k) == baseDelay * 2^k

\* Math.min(1000 * Math.pow(2, retryCount), 30000)
Backoff(k) == Min(baseDelay * 2^k, maxDelay)

\* faulty variant: the comparison of addTask off by one
HasCapacityInclusive(running, limit) == running <= limit

\* ProcessingQueue.currentTasks < ProcessingQueue.currentConcurrency
HasCapacity(running, limit) == running < limit

\* a call of addTask(task): run the task now, or defer it with a timer
AddTask(t) ==
  IF ~isPaused /\ HasCapacity(currentTasks, currentConcurrency)
  THEN /\ currentTasks' = currentTasks + 1
       /\ calls' = [calls EXCEPT ![t] = @ + 1]
       /\ submitted' = [submitted EXCEPT ![t] = "running"]
       /\ deferred' = NoDeferral
       /\ UNCHANGED <<retryCount, deferrals>>
  ELSE /\ retryCount < MaxDeferrals
       /\ deferred' = [task |-> t, delay |-> Backoff(retryCount)]
       /\ retryCount' = retryCount + 1
       /\ deferrals' = [deferrals EXCEPT ![t] = @ + 1]
       /\ submitted' = [submitted EXCEPT ![t] = "waiting"]
       /\ UNCHANGED <<currentTasks, calls>>

\* addTask(task) called by the application
Submit(t) ==
  /\ submitted[t] = "idle"
  /\ AddTask(t)
  /\ UNCHANGED <<isPaused, currentConcurrency, resumeTimeout, increaseIntervals>>

\* setTimeout(() => ProcessingQueue.addTask(task), delay) fires
Resubmit(t) ==
  /\ submitted[t] = "waiting"
  /\ AddTask(t)
  /\ UNCHANGED <<isPaused, currentConcurrency, resumeTimeout, increaseIntervals>>

\* finally { ProcessingQueue.currentTasks-- }
AfterTask(running, ok) == running - 1

\* task() resolves (ok) or rejects: catch logs, finally decrements
TaskEnds(t, ok) ==
  /\ submitted[t] = "running"
  /\ currentTasks' = AfterTask(currentTasks, ok)
  /\ submitted' = [submitted EXCEPT ![t] = IF ok THEN "done" ELSE "failed"]
  /\ deferred' = NoDeferral
  /\ UNCHANGED <<isPaused, currentConcurrency, resumeTimeout, increaseIntervals,
                 retryCount, deferrals, calls>>

\* static pauseAll(): the pending resume timer is replaced by a new one
StaticPauseAll ==
  /\ isPaused' = TRUE
  /\ currentConcurrency' = minConcurrency
  /\ resumeTimeout' = TRUE
  /\ deferred' = NoDeferral
  /\ UNCHANGED <<increaseIntervals, currentTasks, retryCount, submitted, deferrals, calls>>

\* the resume timeout fires and starts an increaseInterval
ResumeFires ==
  /\ resumeTimeout
  /\ increaseIntervals < MaxIntervals
  /\ resumeTimeout' = FALSE
  /\ isPaused' = FALSE
  /\ currentConcurrency' = minConcurrency
  /\ increaseIntervals' = increaseIntervals + 1
  /\ deferred' = NoDeferral
  /\ UNCHANGED <<currentTasks, retryCount, submitted, deferrals, calls>>

\* faulty variant: the ramp-up without its upper limit
MayIncreaseUnbounded(heapLow, limit) == heapLow

\* heapUsedPercent < 65 && currentConcurrency < maxConcurrency
MayIncrease(heapLow, limit) == heapLow /\ limit < maxConcurrency

\* a tick of an increaseInterval: one step up, or clearInterval
IncreaseTick(heapLow) ==
  /\ increaseIntervals > 0
  /\ IF MayIncrease(heapLow, currentConcurrency)
     THEN /\ currentConcurrency' = currentConcurrency + 1
          /\ UNCHANGED increaseIntervals
     ELSE /\ increaseIntervals' = increaseIntervals - 1
          /\ UNCHANGED currentConcurrency
  /\ deferred' = NoDeferral
  /\ UNCHANGED <<isPaused, resumeTimeout, currentTasks, retryCount, submitted,
                 deferrals, calls>>

NextStatic ==
  \/ (\E t \in Submissions : Submit(t)) /\ UNCHANGED <<queueVars, probeVars, monitorVars>>
  \/ (\E t \in Submissions : Resubmit(t)) /\ UNCHANGED <<queueVars, probeVars, monitorVars>>
  \/ (\E t \in Submissions, ok \in BOOLEAN : TaskEnds(t, ok))
       /\ UNCHANGED <<queueVars, probeVars, monitorVars>>
  \/ StaticPauseAll /\ UNCHANGED <<queueVars, probeVars, monitorVars>>
  \/ ResumeFires /\ UNCHANGED <<queueVars, probeVars, monitorVars>>
  \/ (\E heapLow \in BOOLEAN : IncreaseTick(heapLow))
       /\ UNCHANGED <<queueVars, probeVars, monitorVars>>

SpecStatic == Init /\ [][NextStatic]_vars

\* ------------------------------------------------------------------ C11
\* the timeout callback of attempt a runs in this step
Fires(a) == a \in attempts /\ a.timer = "armed" /\ a \notin attempts'
            /\ [a EXCEPT !.timer = "fired"] \in attempts'

\* C11: pauseAll() leaves the queue paused with an empty in-flight set and
\* touches neither the running operations nor the listeners, futures or
\* pending list; and a task that was in flight at a pauseAll() and is still
\* unsettled is settled by the step in which its operation resolves, fails
\* for the last time or times out, tracked or not, paused or resumed.
C11_PauseAllKeepsFutures ==
  [][/\ justPausedAll' =>
          /\ paused' /\ processing' = {}
          /\ UNCHANGED <<attempts, listeners, settlements, queue, invoked>>
     /\ \A a \in attempts :
          (a.task.id \in dropped /\ a.task.id \in listeners) =>
            /\ Fires(a) =>
                 settlements'[a.task.id] = <<[kind |-> "timeout", attempt |-> invoked[a.task.id]]>>
            /\ (Settles(a) /\ fails' = fails) =>
                 settlements'[a.task.id] = <<[kind |-> "result", attempt |-> invoked[a.task.id]]>>
            /\ (Settles(a) /\ fails' # fails /\ a.task.retries = 0) =>
                 settlements'[a.task.id] = <<[kind |-> "error", attempt |-> invoked[a.task.id]]>>]_vars

\* a task in flight at pauseAll() was resolved after the following resume()
C11_Witness ==
  \E t \in dropped :
    /\ ~paused
    /\ t \notin processing
    /\ invoked[t] = 1
    /\ settlements[t] = <<[kind |-> "result", attempt |-> 1]>>

\* ------------------------------------------------------------------ C12
\* C12: when the handler of a critical memory event returns, concurrency
\* is 1, whatever it was before.
C12_CriticalForcesOne == delivered.level = "critical" => concurrency = 1

\* ------------------------------------------------------------------ C13
\* C13: a warning memory event delivered at concurrency c leaves
\* max(1, floor(c / 2)) when tasks are pending and c > 1, and c otherwise.
C13_WarningHalves ==
  delivered.level = "warning" =>
    concurrency = IF delivered.pending > 0 /\ delivered.conc > 1
                  THEN Max(1, delivered.conc \div 2)
                  ELSE delivered.conc

\* a warning with a task pending halved 5 to 2
C13_Witness ==
  /\ delivered.level = "warning"
  /\ delivered.pending > 0
  /\ delivered.conc = 5
  /\ concurrency = 2

\* ------------------------------------------------------------------ C14
\* C14: a normal memory event raises a concurrency below the default
\* D = max(1, floor(cpuCount / 2)) to D and leaves any other value alone.
C14_NormalRestoresDefault ==
  delivered.level = "normal" =>
    concurrency = IF delivered.conc < DefaultConcurrency(cpuCount)
                  THEN DefaultConcurrency(cpuCount)
                  ELSE delivered.conc

\* ------------------------------------------------------------------ C16
\* C16: on a queue that is never paused or cleared and whose concurrency stays
\* at least 1, when every started operation resolves, fails or times out,
\* every enqueued task is eventually settled and the queue keeps coming back
\* to no pending and no in-flight task.
C16_EventuallyDrained ==
  /\ \A t \in Tasks : (t \in enqueued) ~> (settlements[t] # << >>)
  /\ []<>(queue = << >> /\ processing = {})

\* everything drained after one task timed out and another one failed, was
\* retried and failed again
C16_Witness ==
  /\ enqueued = Tasks
  /\ queue = << >>
  /\ processing = {}
  /\ \A t \in Tasks : settlements[t] # << >>
  /\ \E t \in Tasks : settlements[t][1].kind = "timeout"
  /\ \E t \in Tasks : settlements[t][1].kind = "error" /\ fails[t] = 2

\* ------------------------------------------------------------------ C17
\* C17: a sample that read the memory emitted exactly one event: critical
\* if the percentage is above the critical threshold, else warning if it is
\* above the warning threshold, else normal; a percentage equal to a
\* threshold does not reach that level.
C17_OneEventByStrictComparison ==
  lastCall.read = "ok" =>
    /\ Len(lastCall.events) = 1
    /\ lastCall.events[1] =
         IF lastCall.percent > thresholds.critical THEN "critical"
         ELSE IF lastCall.percent > thresholds.warning THEN "warning"
         ELSE "normal"
    /\ lastCall.percent = thresholds.critical => lastCall.events[1] # "critical"
    /\ lastCall.percent = thresholds.warning => lastCall.events[1] # "warning"

\* a sample equal to the critical threshold, above the warning one, emitted
\* warning only
C17_Witness ==
  /\ lastCall.read = "ok"
  /\ lastCall.percent = thresholds.critical
  /\ thresholds.warning < thresholds.critical
  /\ lastCall.events = <<"warning">>

\* ------------------------------------------------------------------ C18
\* C18: at most one sampling timer is active; start() on a running monitor
\* changes nothing and takes no sample; start() on a stopped monitor takes
\* one sample and leaves exactly one timer; stop() leaves no timer, takes
\* no sample, and changes nothing on a stopped monitor.
C18_OneTimer ==
  [][/\ Cardinality(timers') <= 1
     /\ (lastCall'.op = "start" /\ isMonitoring) =>
          /\ lastCall'.read = "none"
          /\ UNCHANGED <<isMonitoring, interval, timers, timersMade, queueVars>>
     /\ (lastCall'.op = "start" /\ ~isMonitoring) =>
          /\ lastCall'.read # "none"
          /\ isMonitoring'
          /\ Cardinality(timers') = 1
     /\ lastCall'.op = "stop" =>
          /\ lastCall'.read = "none"
          /\ timers' = {}
          /\ ~isMonitoring'
          /\ ~isMonitoring => UNCHANGED <<isMonitoring, interval, timers, timersMade, queueVars>>]_vars

\* the monitor runs on its third timer, after start() was called on it while
\* it was running
C18_Witness ==
  /\ lastCall.op = "start"
  /\ lastCall.read = "none"
  /\ isMonitoring
  /\ timers = {MaxTimers}

\* ------------------------------------------------------------------ C19
\* C19: the stored thresholds always satisfy 0 <= warning < critical and a
\* non-negative interval, because configure rejects anything else.
C19_ThresholdsValid ==
  /\ thresholds.warning >= 0
  /\ thresholds.interval >= 0
  /\ thresholds.warning < thresholds.critical

\* ------------------------------------------------------------------ C20
\* C20: a sample whose memory read fails returns null, emits no event and
\* changes neither the queue nor the thresholds; the timer that ticked stays
\* active, and start() still installs its timer.
C20_FailedSampleIsContained ==
  [][(lastCall'.read = "failed" /\ lastCall' # lastCall) =>
       /\ lastCall'.returned = "null"
       /\ lastCall'.events = << >>
       /\ UNCHANGED <<queueVars, thresholds>>
       /\ lastCall'.op = "start" => (isMonitoring' /\ timers' = {interval'})
       /\ lastCall'.op # "start" => UNCHANGED <<isMonitoring, interval, timers>>]_vars

\* a tick failed to read the memory and its timer is still active
C20_Witness ==
  /\ lastCall.op = "tick"
  /\ lastCall.read = "failed"
  /\ interval \in timers

\* ------------------------------------------------------------------ C22
\* the operation of task x rejects in this step
ErrorOf(x) == fails'[x] # fails[x]

\* the timeout of task x fires in this step
TimeoutOf(x) == \E a \in attempts : a.task.id = x /\ Fires(a)

\* the remaining retries task t carries, pending or running
RetriesCarried(t, q, as) ==
  {q[i].retries : i \in {j \in 1..Len(q) : q[j].id = t}}
    \cup {a.task.retries : a \in {b \in as : b.task.id = t}}

\* C22: a step in which the operation of task x fails or its timeout fires
\* leaves every other task's future and listeners as they were, keeps its
\* remaining retries, keeps it in the in-flight set if it was there, and
\* keeps it pending unless the step starts it.
C22_ErrorsStayWithTheirTask ==
  [][\A x \in Tasks : (ErrorOf(x) \/ TimeoutOf(x)) =>
       \A t \in Tasks \ {x} :
         /\ settlements'[t] = settlements[t]
         /\ (t \in listeners') = (t \in listeners)
         /\ RetriesCarried(t, queue', attempts') = RetriesCarried(t, queue, attempts)
         /\ t \in processing => t \in processing'
         /\ t \in QueueIds(queue) =>
              \/ t \in QueueIds(queue')
              \/ t \in processing' /\ invoked'[t] = invoked[t] + 1]_vars

\* one task was rejected by its error, the other one resolved afterwards
C22_Witness ==
  \E x \in Tasks, t \in Tasks :
    /\ x # t
    /\ settlements[x] # << >> /\ settlements[x][1].kind = "error"
    /\ settlements[t] # << >> /\ settlements[t][1].kind = "result"
    /\ fails[t] = 0

\* ------------------------------------------------------------------ C26
\* C26: no task id is pending and in flight at once, none occurs twice in
\* the pending list, and a settled task is neither pending nor in flight.
C26_OneLifecycleState ==
  /\ QueueIds(queue) \cap processing = {}
  /\ \A i, j \in 1..Len(queue) : queue[i].id = queue[j].id => i = j
  /\ \A t \in Tasks :
       settlements[t] # << >> => (t \notin QueueIds(queue) /\ t \notin processing)

\* ------------------------------------------------------------------ C28
\* C28: the operation of a task enqueued with retries = r has been called
\* at most r + 1 times, and no pending or running task carries a negative
\* number of remaining retries.
C28_AtMostRPlusOneCalls ==
  \A t \in enqueued :
    /\ invoked[t] <= initRetries[t] + 1
    /\ \A r \in RetriesCarried(t, queue, attempts) : r >= 0

\* a task with one retry timed out, its abandoned operation failed later and
\* the task was called a second time
C28_Witness ==
  \E t \in enqueued :
    /\ initRetries[t] = 1
    /\ TimedOut(t)
    /\ fails[t] >= 1
    /\ invoked[t] = 2

\* ------------------------------------------------------------------ C25
\* C25: the handler of a warning, critical or normal memory event leaves
\* the pending list, the in-flight set, the paused flag, the running
\* operations with their timers and retries, the listeners and the futures
\* unchanged.
C25_MemoryEventFrame ==
  [][delivered'.level # "none" =>
       UNCHANGED <<queue, processing, paused, attempts, invoked, listeners,
                   settlements, fails, priorityQueue>>]_vars

\* a critical event cut concurrency to 1 while two tasks were in flight,
\* and both still are
C25_Witness ==
  /\ delivered.level = "critical"
  /\ delivered.conc > 1
  /\ concurrency = 1
  /\ Cardinality(processing) = 2
  /\ \A t \in processing : settlements[t] = << >> /\ Running(t)

\* ------------------------------------------------------------------ C27
\* the tasks whose operation is called in this step
Started == {t \in Tasks : invoked'[t] > invoked[t]}

\* C27: the tasks a step starts found the in-flight set strictly below
\* concurrency, and while concurrency is never lowered the in-flight set
\* never exceeds it.
C27_NeverAboveLimit ==
  /\ [](Cardinality(processing) <= concurrency)
  /\ [][Started # {} =>
          /\ Started \subseteq processing'
          /\ Cardinality(processing' \ Started) < concurrency
          /\ Cardinality(processing') <= concurrency]_vars

\* on a host whose default is 1, concurrency was raised to 2 and two tasks
\* are in flight
C27_Witness ==
  /\ DefaultConcurrency(cpuCount) = 1
  /\ concurrency = 2
  /\ Cardinality(processing) = 2

\* ------------------------------------------------------------------ C23
\* C23: the static currentConcurrency stays within
\* [minConcurrency, maxConcurrency] = [1, 3].
C23_StaticConcurrencyInRange ==
  /\ currentConcurrency >= 1
  /\ currentConcurrency <= 3
  /\ minConcurrency = 1
  /\ maxConcurrency = 3

\* a ramp-up interval left running by an earlier pauseAll() has brought
\* concurrency back to 3 while the queue is paused again
C23_Witness ==
  /\ isPaused
  /\ resumeTimeout
  /\ increaseIntervals > 0
  /\ currentConcurrency = 3

\* ------------------------------------------------------------------ C21
RECURSIVE SumOver(_, _)
SumOver(f, S) ==
  IF S = {} THEN 0
  ELSE LET x == CHOOSE y \in S : TRUE IN f[x] + SumOver(f, S \ {x})

\* addTask(t) runs in this step
AddTaskOf(t) ==
  /\ submitted[t] \in {"idle", "waiting"}
  /\ submitted'[t] = "running" \/ deferrals'[t] > deferrals[t]

\* C21: an addTask call made while the static mode is paused or full does
\* not call the task and keeps no record of it but its timer; the n-th
\* deferral made waits 1000 * 2^(n - 1) ms, at most 30000 ms.
C21_DeferredWithBackoff ==
  [][\A t \in Submissions :
       (AddTaskOf(t) /\ (isPaused \/ currentTasks >= currentConcurrency)) =>
         /\ calls' = calls
         /\ currentTasks' = currentTasks
         /\ submitted'[t] = "waiting"
         /\ deferred'.task = t
         /\ deferred'.delay =
              Min(1000 * 2^(SumOver(deferrals', Submissions) - 1), 30000)
         /\ deferred'.delay <= 30000]_vars

\* a submission deferred for the sixth time overall waits the capped delay
C21_Witness ==
  /\ deferred.task # 0
  /\ SumOver(deferrals, Submissions) = 6
  /\ deferred.delay = 30000

\* ------------------------------------------------------------------ C29
\* C29: the first deferral of a task function waits the base delay of
\* 1000 ms, whatever happened to other task functions before.
C29_FirstDeferralWaitsBase ==
  (deferred.task # 0 /\ deferrals[deferred.task] = 1) => deferred.delay = 1000

\* ------------------------------------------------------------------ C30
\* C30: the static count of running tasks stays within 0..3, and no task
\* function passed to addTask is called twice.
C30_RunningWithinLimit ==
  /\ currentTasks >= 0
  /\ currentTasks <= 3
  /\ \A t \in Submissions : calls[t] <= 1

\* three task functions run, a fourth was deferred, re-submitted after one of
\* them had failed, and has run
C30_Witness ==
  /\ currentTasks = 3
  /\ \E t \in Submissions : submitted[t] = "failed"
  /\ \E t \in Submissions : deferrals[t] >= 1 /\ submitted[t] = "running" /\ calls[t] = 1

\* ------------------------------------------------------------------ C24
\* C24: when an operation fails before its timeout with retries left, the
\* step leaves the future unsettled and the task either at the front of the
\* pending list, out of the in-flight set, or already started again, in both
\* cases with one retry less; and no task enqueued afterwards with an equal
\* or lower priority is started before the retried task is.
C24_RetryGoesFirst ==
  /\ [][\A a \in attempts :
          (Settles(a) /\ a.timer = "armed" /\ fails' # fails /\ a.task.retries > 0) =>
            LET retry == [a.task EXCEPT !.retries = @ - 1]
            IN /\ settlements'[a.task.id] = settlements[a.task.id]
               /\ (a.task.id \in listeners') = (a.task.id \in listeners)
               /\ \/ /\ queue' # << >>
                     /\ Head(queue') = retry
                     /\ a.task.id \notin processing'
                  \/ /\ [task |-> retry, timer |-> "armed"] \in attempts'
                     /\ a.task.id \in processing'
                     /\ invoked'[a.task.id] = invoked[a.task.id] + 1]_vars
  /\ [](\A m \in retryFirst : invoked[m[2]] > 0 => invoked[m[1]] > m[3])

====
